---- MODULE Spec2Model ----
(***************************************************************************)
(* Role / onboarding state machine, agent verification workflow and office *)
(* lifecycle of the franchise backend, as implemented by the controllers,  *)
(* route validators and mongoose schemas of the repository.                *)
(*                                                                         *)
(* The document store is modelled by three collections (users, agents,     *)
(* offices).  Every request handler is an action; the response it sends is *)
(* recorded in `last` (HTTP status and the AppError message).              *)
(***************************************************************************)
EXTENDS Integers, Sequences, FiniteSets, TLC

\* ---------------------------------------------------------------- bounds
MaxUsers == 2
MaxAgents == 2
MaxOffices == 1
MaxRequests == 2
\* number of requests handled in one behaviour
MaxSteps == 4
MaxProperties == 1

\* ------------------------------------------------------------ vocabulary
Null == 0
BadId == -1
UserIds == 1..MaxUsers
\* well-formed ObjectIds that name no stored office and no stored Agent Profile
DanglingOffice == MaxOffices + 1
UnknownAgent == MaxAgents + 1
FranchiseIds == {"RMX-100", "RMX-200"}
StoreFailures == {"none", "office", "agent", "user", "commit", "read"}
RequestIds == 1..MaxRequests

Roles == {"buyer", "seller", "agent", "manager", "admin"}
OnboardingRoles == {"buyer", "seller", "agent"}
VerificationStatuses == {"none", "pending", "verified", "rejected"}
VerifyActions == {"approve", "reject"}

VARIABLES users, agents, offices, properties, reqs, last, steps
vars == <<users, agents, offices, properties, reqs, last, steps>>

\* ---------------------------------------------------------------- helpers
Res(status, msg) == [status |-> status, msg |-> msg]

Last(op, actor, id, arg, res) ==
  [op |-> op, actor |-> actor, id |-> id, arg |-> arg,
   status |-> res.status, msg |-> res.msg]

Put(f, k, v) == [x \in DOMAIN f \cup {k} |-> IF x = k THEN v ELSE f[x]]

Db(u, a, o) == [users |-> u, agents |-> a, offices |-> o]

Out(db, res) == [users |-> db.users, agents |-> db.agents,
                 offices |-> db.offices, res |-> res]

\* mongoose assigns every created document a fresh _id
NextId(coll) == Cardinality(DOMAIN coll) + 1

IdleReq == [pc |-> "idle", actor |-> Null, office |-> Null, agent |-> Null,
            status |-> 0]

\* ------------------------------------------------------------ User schema
\* the pre-save hook stores a bcrypt digest of the password and forgotPassword
\* stores a sha256 digest of the reset token: a digest is equal to another one
\* only when algorithm and input are the same
Hash(alg, input) == <<alg, input>>

NoDigest == <<>>

\* the program's limit of saved searches of one account
SavedSearchLimit == 10

\* a saved search keeps its _id and name; a list of propertyTypes or of
\* locations is kept by its length
SavedSearch(id, name) == [id |-> id, name |-> name]

NextSearchId(user) ==
  LET ids == {user.savedSearches[i].id : i \in DOMAIN user.savedSearches}
  IN IF ids = {} THEN 1 ELSE 1 + CHOOSE m \in ids : \A n \in ids : n <= m

NewUser(role) ==
  [role |-> role,
   onboardingCompleted |-> [buyer |-> FALSE, seller |-> FALSE, agent |-> FALSE],
   isProfileComplete |-> FALSE,
   agentVerificationStatus |-> "none",
   agentId |-> Null,
   officeId |-> Null,
   managerApplication |-> "none",
   password |-> Hash("bcrypt", "Passw0rd"),
   passwordResetToken |-> NoDigest,
   emailVerified |-> FALSE,
   isActive |-> TRUE,
   lastLogin |-> Null,
   preferences |-> [propertyTypes |-> 0, notifications |-> TRUE],
   savedSearches |-> <<>>,
   favoriteProperties |-> {}]

\* user.onboardingCompleted[user.role]: undefined (falsy) for manager / admin
OnboardingDone(user) ==
  IF user.role \in OnboardingRoles
  THEN user.onboardingCompleted[user.role]
  ELSE FALSE

\* ----------------------------------------------------------- AuthController
validateRegsiter(role) == role \in {"buyer", "seller", "agent", "admin"}

registerRun(db, email, role) ==
  IF ~validateRegsiter(role)
  THEN Out(db, Res(400, "Validation failed"))
  ELSE IF email \in DOMAIN db.users
  THEN Out(db, Res(400, "User with this email already exists"))
  ELSE Out(Db(Put(db.users, email, NewUser(role)), db.agents, db.offices),
           Res(201, "User registered successfully"))

\* ----------------------------------------------------------- RoleController
\* every role of the schema's enum is accepted
selectRoleRun_anyRole(db, actor, id, role) ==
  IF actor # id
  THEN Out(db, Res(403, "Unauthorized access"))
  ELSE IF role \notin Roles
  THEN Out(db, Res(400, "Invalid role"))
  ELSE IF id \notin DOMAIN db.users
  THEN Out(db, Res(404, "User not found"))
  ELSE LET user == db.users[id]
           u1 == [user EXCEPT !.role = role]
           u2 == IF role = "agent"
                 THEN [u1 EXCEPT !.agentVerificationStatus = "none"]
                 ELSE u1
       IN Out(Db(Put(db.users, id, u2), db.agents, db.offices),
              Res(200, "Role updated"))

selectRoleRun(db, actor, id, role) ==
  IF actor # id
  THEN Out(db, Res(403, "Unauthorized access"))
  ELSE IF role \notin {"buyer", "seller", "agent"}
  THEN Out(db, Res(400, "Invalid role"))
  ELSE IF id \notin DOMAIN db.users
  THEN Out(db, Res(404, "User not found"))
  ELSE LET user == db.users[id]
           u1 == [user EXCEPT !.role = role]
           u2 == IF role = "agent"
                 THEN [u1 EXCEPT !.agentVerificationStatus = "none"]
                 ELSE u1
       IN Out(Db(Put(db.users, id, u2), db.agents, db.offices),
              Res(200, "Role updated"))

\* agent onboarding is accepted here too
validRoles_withAgent == {"buyer", "seller", "agent"}

validRoles == {"buyer", "seller"}

\* data.propertyTypes is the number of property types the request names;
\* the buyer's preferences are replaced and, when a type is named, a default
\* search is pushed onto savedSearches
completeBuyerOnboarding(user, data) ==
  LET u0 == [user EXCEPT !.preferences =
                 [propertyTypes |-> data.propertyTypes, notifications |-> TRUE]]
  IN IF data.propertyTypes > 0
     THEN [u0 EXCEPT !.savedSearches =
              Append(@, SavedSearch(NextSearchId(user), "My Initial Search"))]
     ELSE u0

\* sellerData is not a path of the preferences schema: nothing of it is stored
completeSellerOnboarding(user, data) == user

completeOnboardingRun(db, actor, id, role, data) ==
  IF actor # id
  THEN Out(db, Res(403, "Unauthorized access"))
  ELSE IF id \notin DOMAIN db.users
  THEN Out(db, Res(404, "User not found"))
  ELSE IF role \notin validRoles
  THEN Out(db, Res(400, "Invalid role"))
  ELSE LET user == db.users[id]
           u0 == IF role = "buyer"
                 THEN completeBuyerOnboarding(user, data)
                 ELSE completeSellerOnboarding(user, data)
           u1 == [u0 EXCEPT !.onboardingCompleted[role] = TRUE]
           u2 == IF OnboardingDone(u1)
                 THEN [u1 EXCEPT !.isProfileComplete = TRUE]
                 ELSE u1
       IN Out(Db(Put(db.users, id, u2), db.agents, db.offices),
              Res(200, "onboarding completed successfully"))

\* ----------------------------------------------------------- Agent schema
\* `office` is a required ObjectId: a value that does not cast fails validation
AgentSchemaValid(doc) == doc.office # BadId /\ doc.office # Null

NewAgent(userId, office, isActive) ==
  [userId |-> userId, office |-> office, isActive |-> isActive]

\* Agent.findOne({ userId })
AgentsOf(db, userId) == {a \in DOMAIN db.agents : db.agents[a].userId = userId}

\* User.findOne({ agentId })
UsersWithAgent(db, agentId) ==
  {u \in DOMAIN db.users : db.users[u].agentId = agentId}

\* ---------------------------------------------------------- AgentController
applyRun_unguarded(db, actor, office) ==
  IF ~AgentSchemaValid([office |-> office])
  THEN [users |-> db.users, agents |-> db.agents, offices |-> db.offices,
        res |-> [status |-> 400, msg |-> "Validation failed"]]
  ELSE [users |-> [db.users EXCEPT ![actor].agentVerificationStatus = "pending",
                                   ![actor].agentId = Cardinality(DOMAIN db.agents) + 1],
        agents |-> [x \in DOMAIN db.agents \cup {Cardinality(DOMAIN db.agents) + 1} |->
                      IF x \in DOMAIN db.agents THEN db.agents[x]
                      ELSE [userId |-> actor, office |-> office, isActive |-> FALSE]],
        offices |-> db.offices,
        res |-> [status |-> 201, msg |-> "Agent application submitted successfully"]]

applyAlreadyVerified(user) == user.agentVerificationStatus = "verified"

applyRun(db, actor, office) ==
  IF actor \notin DOMAIN db.users
  THEN Out(db, Res(404, "User not found"))
  ELSE IF applyAlreadyVerified(db.users[actor])
  THEN Out(db, Res(400, "You are already a verified agent"))
  ELSE IF AgentsOf(db, actor) # {}
  THEN Out(db, Res(400, "Agent application already submitted"))
  ELSE IF ~AgentSchemaValid(NewAgent(actor, office, FALSE))
  THEN Out(db, Res(400, "Validation failed"))
  ELSE LET aid == NextId(db.agents)
           u1 == [db.users[actor] EXCEPT !.agentVerificationStatus = "pending",
                                         !.agentId = aid]
       IN Out(Db(Put(db.users, actor, u1),
                 Put(db.agents, aid, NewAgent(actor, office, FALSE)),
                 db.offices),
              Res(201, "Agent application submitted successfully"))

verifyStatus_inverted(action) == IF action = "approve" THEN "rejected" ELSE "verified"

verifyStatus(action) == IF action = "approve" THEN "verified" ELSE "rejected"

verifyAgentRun(db, actor, id, action) ==
  IF db.users[actor].role # "admin"
  THEN Out(db, Res(403, "Unauthorized access"))
  ELSE IF id \notin DOMAIN db.agents
  THEN Out(db, Res(404, "Agent not found"))
  ELSE LET agent == db.agents[id]
           a1 == [agent EXCEPT !.isActive = (action = "approve")]
           us == IF agent.userId \in DOMAIN db.users
                 THEN Put(db.users, agent.userId,
                          [db.users[agent.userId] EXCEPT
                             !.agentVerificationStatus = verifyStatus(action)])
                 ELSE db.users
       IN Out(Db(us, Put(db.agents, id, a1), db.offices),
              Res(200, IF action = "approve" THEN "Agent verified"
                                             ELSE "Agent rejected"))

\* the application itself promotes the applicant
applyForManagerRun_promoting(db, actor) ==
  IF actor \notin DOMAIN db.users
  THEN Out(db, Res(404, "User not found"))
  ELSE LET user == db.users[actor] IN
    IF user.role # "agent"
    THEN Out(db, Res(400, "Only agents can apply for manager"))
    ELSE IF user.agentVerificationStatus # "verified"
    THEN Out(db, Res(400, "Only verified agents can apply for manager"))
    ELSE IF user.managerApplication = "pending"
    THEN Out(db, Res(400, "You already have a pending application"))
    ELSE Out(Db(Put(db.users, actor, [user EXCEPT !.managerApplication = "pending",
                                                  !.role = "manager"]),
                db.agents, db.offices),
             Res(200, "Manager application submitted successfully"))

applyForManagerRun(db, actor) ==
  IF actor \notin DOMAIN db.users
  THEN Out(db, Res(404, "User not found"))
  ELSE LET user == db.users[actor] IN
    IF user.role # "agent"
    THEN Out(db, Res(400, "Only agents can apply for manager"))
    ELSE IF user.agentVerificationStatus # "verified"
    THEN Out(db, Res(400, "Only verified agents can apply for manager"))
    ELSE IF user.managerApplication = "pending"
    THEN Out(db, Res(400, "You already have a pending application"))
    ELSE Out(Db(Put(db.users, actor, [user EXCEPT !.managerApplication = "pending"]),
                db.agents, db.offices),
             Res(200, "Manager application submitted successfully"))

\* ------------------------------------------- onboarding handlers (functions)
\* req.body is spread into the new document before userId
completeAgentOnboardingRun(db, actor, office, isActive) ==
  IF ~AgentSchemaValid(NewAgent(actor, office, isActive))
  THEN Out(db, Res(400, "Validation failed"))
  ELSE LET aid == NextId(db.agents)
           us == IF actor \in DOMAIN db.users
                 THEN Put(db.users, actor,
                          [db.users[actor] EXCEPT
                             !.agentId = aid,
                             !.agentVerificationStatus = "pending",
                             !.onboardingCompleted.agent = TRUE])
                 ELSE db.users
       IN Out(Db(us, Put(db.agents, aid, NewAgent(actor, office, isActive)),
                 db.offices),
              Res(200, "success"))

\* ----------------------------------------------------- OnboardingController
checkProfileCompletion(user) ==
  IF /\ user.onboardingCompleted.buyer
     /\ user.onboardingCompleted.seller
     /\ user.onboardingCompleted.agent
  THEN [user EXCEPT !.isProfileComplete = TRUE]
  ELSE user

OnboardingController_completeAgentOnboardingRun(db, actor, office) ==
  IF actor \notin DOMAIN db.users
  THEN Out(db, Res(404, "User not found"))
  ELSE IF AgentsOf(db, actor) # {}
  THEN Out(db, Res(400, "Agent profile already exists"))
  ELSE IF ~AgentSchemaValid(NewAgent(actor, office, FALSE))
  THEN Out(db, Res(400, "Validation failed"))
  ELSE LET aid == NextId(db.agents)
           u1 == [db.users[actor] EXCEPT !.agentId = aid,
                                         !.agentVerificationStatus = "pending",
                                         !.onboardingCompleted.agent = TRUE]
       IN Out(Db(Put(db.users, actor, checkProfileCompletion(u1)),
                 Put(db.agents, aid, NewAgent(actor, office, FALSE)),
                 db.offices),
              Res(201, "Agent onboarding completed and application pending approval"))

\* ----------------------------------------------------------- UserController
Absent == "absent"

validateUpdateUser_schemaEnum(body) ==
  body.role \in {"buyer", "seller", "agent", "manager", "admin", "absent"}

validateUpdateUser(body) ==
  body.role \in {"buyer", "seller", "agent", "admin"} \cup {Absent}

\* a filter that lets every field of req.body through
updateUserData_unfiltered(actorRole, body) ==
  [role |-> body.role,
   isActive |-> body.isActive,
   agentId |-> body.agentId,
   profile |-> body.profile,
   preferences |-> body.preferences]

\* the fields of req.body that survive the allowedFields filter
updateUserData(actorRole, body) ==
  [role |-> IF actorRole = "admin" THEN body.role ELSE Absent,
   isActive |-> IF actorRole = "admin" THEN body.isActive ELSE Absent,
   agentId |-> IF actorRole = "admin" THEN body.agentId ELSE Null,
   profile |-> body.profile,
   preferences |-> body.preferences]

updateUserRun(db, actor, id, body) ==
  IF ~validateUpdateUser(body)
  THEN Out(db, Res(400, "Validation failed"))
  ELSE IF db.users[actor].role # "admin" /\ actor # id
  THEN Out(db, Res(403, "Insufficient permissions"))
  ELSE LET data == updateUserData(db.users[actor].role, body) IN
    IF /\ data.role = Absent /\ data.agentId = Null /\ ~data.profile
       /\ data.isActive = Absent /\ data.preferences = <<>>
    THEN Out(db, Res(400, "No valid fields provided for update"))
    ELSE IF id \notin DOMAIN db.users
    THEN Out(db, Res(404, "User not found"))
    ELSE LET user == db.users[id]
             u1 == IF data.role = Absent THEN user
                   ELSE [user EXCEPT !.role = data.role]
             u2 == IF data.agentId = Null THEN u1
                   ELSE [u1 EXCEPT !.agentId = data.agentId]
             u3 == IF data.isActive = Absent THEN u2
                   ELSE [u2 EXCEPT !.isActive = (data.isActive = "true")]
             u4 == IF data.preferences = <<>> THEN u3
                   ELSE [u3 EXCEPT !.preferences = data.preferences[1]]
         IN Out(Db(Put(db.users, id, u4), db.agents, db.offices),
                Res(200, "User updated successfully"))

\* ------------------------------------------------------------ Office schema
\* the document assembled by createOffice: the whitelisted body fields plus
\* manager, agents, franchiseId and statistics; establishedDate is not among them
BuildOfficeData(body, managerId) ==
  [franchiseId |-> body.franchiseId,
   manager |-> managerId,
   agents |-> <<managerId>>,
   totalAgents |-> 1,
   isActive |-> TRUE,
   deletedAt |-> FALSE,
   requiredFields |-> body.requiredFields,
   establishedDate |-> FALSE]

\* required paths of OfficeSchema
OfficeSchemaValid(doc) == doc.requiredFields /\ doc.establishedDate

\* OfficeSchema.pre("save")
OfficePreSave(doc, agentsModified) ==
  IF agentsModified THEN [doc EXCEPT !.totalAgents = Len(doc.agents)] ELSE doc

StoredOffice(doc) ==
  [franchiseId |-> doc.franchiseId, manager |-> doc.manager,
   agents |-> doc.agents, totalAgents |-> doc.totalAgents,
   isActive |-> doc.isActive, deletedAt |-> doc.deletedAt]

OfficesWithFranchise(db, franchiseId) ==
  {o \in DOMAIN db.offices : db.offices[o].franchiseId = franchiseId}

\* ------------------------------------------------------ mongoose transaction
\* A session carries the committed store, the session's own view of it (tx)
\* and the error thrown so far.  Writes made with { session } go to tx only.
NoErr == Res(0, "")
StartSession(db) == [store |-> db, tx |-> db, err |-> NoErr]
Throw(s, res) == IF s.err = NoErr THEN [s EXCEPT !.err = res] ELSE s
StoreError == Res(500, "store failure")

\* commitTransaction publishes tx; abortTransaction keeps the committed store
EndSession(s, fail) ==
  IF s.err = NoErr /\ fail = "commit" THEN [db |-> s.store, err |-> StoreError]
  ELSE IF s.err = NoErr THEN [db |-> s.tx, err |-> NoErr]
  ELSE [db |-> s.store, err |-> s.err]

\* the request ends without a response: the promise of the handler rejects
Unanswered == Res(0, "unhandled rejection")

\* Office.findById(...).populate(...) after commitTransaction, outside the
\* session. When it throws, the catch block calls abortTransaction on the
\* committed transaction; the driver refuses that with an error of its own,
\* which leaves the catch block before next(error) is reached.
FindPopulated(e, fail, ok) ==
  IF e.err # NoErr THEN e.err
  ELSE IF fail = "read" THEN Unanswered
  ELSE ok

\* Office.create([officeData]) without validation and outside the session
OfficeCreate_unsessioned(s, doc, fail) ==
  IF s.err.status # 0 THEN s
  ELSE [s EXCEPT !.store.offices =
                   [x \in DOMAIN @ \cup {Cardinality(DOMAIN @) + 1} |->
                      IF x \in DOMAIN @ THEN @[x]
                      ELSE [franchiseId |-> doc.franchiseId, manager |-> doc.manager,
                            agents |-> doc.agents, totalAgents |-> doc.totalAgents,
                            isActive |-> doc.isActive, deletedAt |-> doc.deletedAt]],
                 !.tx.offices =
                   [x \in DOMAIN @ \cup {Cardinality(DOMAIN @) + 1} |->
                      IF x \in DOMAIN @ THEN @[x]
                      ELSE [franchiseId |-> doc.franchiseId, manager |-> doc.manager,
                            agents |-> doc.agents, totalAgents |-> doc.totalAgents,
                            isActive |-> doc.isActive, deletedAt |-> doc.deletedAt]]]

\* Office.create([officeData], { session })
OfficeCreate(s, doc, fail) ==
  IF s.err # NoErr THEN s
  ELSE IF ~OfficeSchemaValid(doc) THEN Throw(s, Res(400, "Validation failed"))
  ELSE IF fail = "office" THEN Throw(s, StoreError)
  ELSE IF OfficesWithFranchise(s.tx, doc.franchiseId) # {}
  THEN Throw(s, Res(400, "franchiseId already exists"))
  ELSE [s EXCEPT !.tx.offices =
          Put(s.tx.offices, NextId(s.tx.offices),
              StoredOffice(OfficePreSave(doc, TRUE)))]

\* agent.save({ session })
AgentSave(s, id, doc, fail) ==
  IF s.err # NoErr THEN s
  ELSE IF fail = "agent" THEN Throw(s, StoreError)
  ELSE [s EXCEPT !.tx.agents = Put(s.tx.agents, id, doc)]

\* user.save({ session })
UserSave(s, id, doc, fail) ==
  IF s.err # NoErr THEN s
  ELSE IF fail = "user" THEN Throw(s, StoreError)
  ELSE [s EXCEPT !.tx.users = Put(s.tx.users, id, doc)]

\* --------------------------------------------------------- OfficeController
createOfficeCheck(db, actor, body, managerUser) ==
  IF body.manager = Null THEN Res(400, "Manager (agent id) is required")
  ELSE IF body.franchiseId = "" THEN Res(400, "Franchise ID is required")
  ELSE IF actor \notin DOMAIN db.users THEN Res(404, "User not found")
  ELSE IF db.users[actor].role \notin {"admin", "manager"}
  THEN Res(403, "Only admin or manager can create offices")
  ELSE IF OfficesWithFranchise(db, body.franchiseId) # {}
  THEN Res(400, "Franchise ID already in use")
  ELSE IF body.manager \notin DOMAIN db.agents
  THEN Res(404, "Manager agent not found")
  ELSE IF \/ managerUser = Null
          \/ db.users[managerUser].agentVerificationStatus # "verified"
  THEN Res(400, "Manager must be a verified agent")
  ELSE NoErr

\* managerUser is the document User.findOne({ agentId }) returned (Null: none)
createOfficeRun(db, actor, body, managerUser, fail) ==
  LET s0 == Throw(StartSession(db), createOfficeCheck(db, actor, body, managerUser))
  IN IF s0.err # NoErr
     THEN Out(EndSession(s0, fail).db, s0.err)
     ELSE
       LET oid == NextId(db.offices)
           s1 == OfficeCreate(s0, BuildOfficeData(body, body.manager), fail)
           s2 == AgentSave(s1, body.manager,
                           [db.agents[body.manager] EXCEPT !.office = oid], fail)
           s3 == UserSave(s2, managerUser,
                          [db.users[managerUser] EXCEPT !.role = "manager",
                                                        !.officeId = oid], fail)
           e == EndSession(s3, fail)
       IN Out(e.db, FindPopulated(e, fail,
                                  Res(201, "Office created successfully")))

\* office.save({ session })
OfficeSave(s, id, doc, agentsModified, fail) ==
  IF s.err # NoErr THEN s
  ELSE IF fail = "office" THEN Throw(s, StoreError)
  ELSE [s EXCEPT !.tx.offices =
          Put(s.tx.offices, id, OfficePreSave(doc, agentsModified))]

InSeq(x, seq) == \E i \in 1..Len(seq) : seq[i] = x

officeAccessCheck(db, actor, id) ==
  IF actor \notin DOMAIN db.users THEN Res(404, "User not found")
  ELSE IF db.users[actor].role \notin {"admin", "manager"}
  THEN Res(403, "Only admin or manager")
  ELSE IF id \notin DOMAIN db.offices THEN Res(404, "Office not found")
  ELSE NoErr

ManagerOfOtherOffice(db, actor, id) ==
  /\ db.users[actor].role = "manager"
  /\ db.offices[id].manager # db.users[actor].agentId

\* the new manager is pushed without the includes() test
updateOfficeRun_alwaysPush(db, actor, id, body, newManagerUser, fail) ==
  LET c0 == officeAccessCheck(db, actor, id)
      c1 == IF c0 # NoErr THEN c0
            ELSE IF ManagerOfOtherOffice(db, actor, id)
            THEN Res(403, "You can only update your own office")
            ELSE NoErr
  IN IF c1 # NoErr THEN Out(db, c1)
     ELSE
       LET office == db.offices[id]
           o1 == IF body.isActive = Absent THEN office
                 ELSE [office EXCEPT !.isActive = (body.isActive = "true")]
           reassign == body.manager # Null /\ body.manager # office.manager
           c2 == IF ~reassign THEN NoErr
                 ELSE IF body.manager \notin DOMAIN db.agents
                 THEN Res(404, "New manager agent not found")
                 ELSE IF \/ newManagerUser = Null
                         \/ db.users[newManagerUser].agentVerificationStatus
                              # "verified"
                 THEN Res(400, "New manager must be a verified agent")
                 ELSE NoErr
           push == reassign
           o2 == IF ~reassign THEN o1
                 ELSE [o1 EXCEPT !.manager = body.manager,
                                 !.agents = IF push
                                            THEN Append(@, body.manager)
                                            ELSE @]
           s0 == Throw(StartSession(db), c2)
           s1 == IF reassign /\ s0.err = NoErr
                 THEN UserSave(s0, newManagerUser,
                               [db.users[newManagerUser] EXCEPT
                                  !.role = "manager", !.officeId = id], fail)
                 ELSE s0
           s2 == OfficeSave(s1, id, o2, push, fail)
           e == EndSession(s2, fail)
       IN Out(e.db, FindPopulated(e, fail,
                                  Res(200, "Office updated successfully")))

updateOfficeRun(db, actor, id, body, newManagerUser, fail) ==
  LET c0 == officeAccessCheck(db, actor, id)
      c1 == IF c0 # NoErr THEN c0
            ELSE IF ManagerOfOtherOffice(db, actor, id)
            THEN Res(403, "You can only update your own office")
            ELSE NoErr
  IN IF c1 # NoErr THEN Out(db, c1)
     ELSE
       LET office == db.offices[id]
           o1 == IF body.isActive = Absent THEN office
                 ELSE [office EXCEPT !.isActive = (body.isActive = "true")]
           reassign == body.manager # Null /\ body.manager # office.manager
           c2 == IF ~reassign THEN NoErr
                 ELSE IF body.manager \notin DOMAIN db.agents
                 THEN Res(404, "New manager agent not found")
                 ELSE IF \/ newManagerUser = Null
                         \/ db.users[newManagerUser].agentVerificationStatus
                              # "verified"
                 THEN Res(400, "New manager must be a verified agent")
                 ELSE NoErr
           push == reassign /\ ~InSeq(body.manager, office.agents)
           o2 == IF ~reassign THEN o1
                 ELSE [o1 EXCEPT !.manager = body.manager,
                                 !.agents = IF push
                                            THEN Append(@, body.manager)
                                            ELSE @]
           s0 == Throw(StartSession(db), c2)
           s1 == IF reassign /\ s0.err = NoErr
                 THEN UserSave(s0, newManagerUser,
                               [db.users[newManagerUser] EXCEPT
                                  !.role = "manager", !.officeId = id], fail)
                 ELSE s0
           s2 == OfficeSave(s1, id, o2, push, fail)
           e == EndSession(s2, fail)
       IN Out(e.db, FindPopulated(e, fail,
                                  Res(200, "Office updated successfully")))

\* Agent.updateMany({ office }, { $set: { isActive: false } }, { session })
AgentUpdateMany(s, officeId, fail) ==
  IF s.err # NoErr THEN s
  ELSE IF fail = "agent" THEN Throw(s, StoreError)
  ELSE [s EXCEPT !.tx.agents =
          [a \in DOMAIN @ |-> IF @[a].office = officeId
                              THEN [@[a] EXCEPT !.isActive = FALSE]
                              ELSE @[a]]]

\* User.updateMany({ officeId }, { $unset: { officeId: "" } }, { session })
UserUpdateMany(s, officeId, fail) ==
  IF s.err # NoErr THEN s
  ELSE IF fail = "user" THEN Throw(s, StoreError)
  ELSE [s EXCEPT !.tx.users =
          [u \in DOMAIN @ |-> IF @[u].officeId = officeId
                              THEN [@[u] EXCEPT !.officeId = Null]
                              ELSE @[u]]]

deleteOfficeRun(db, actor, id, fail) ==
  LET c0 == officeAccessCheck(db, actor, id)
      c1 == IF c0 # NoErr THEN c0
            ELSE IF ~db.offices[id].isActive
            THEN Res(400, "Office is already inactive")
            ELSE IF ManagerOfOtherOffice(db, actor, id)
            THEN Res(403, "Managers can only delete their own offices")
            ELSE NoErr
  IN IF c1 # NoErr THEN Out(db, c1)
     ELSE
       LET s0 == StartSession(db)
           s1 == OfficeSave(s0, id, [db.offices[id] EXCEPT !.isActive = FALSE,
                                                           !.deletedAt = TRUE],
                            FALSE, fail)
           s2 == AgentUpdateMany(s1, id, fail)
           s3 == UserUpdateMany(s2, id, fail)
           e == EndSession(s3, fail)
       IN Out(e.db, IF e.err = NoErr
                    THEN Res(200, "Office deleted successfully (soft delete)")
                    ELSE e.err)

\* ------------------------------------------------------ PropertyController
PropertyIds == 1..MaxProperties
PropertyStatuses == {"active", "pending", "sold", "off-market"}

\* ObjectIds of different collections never coincide
NoRef == [kind |-> "none", id |-> Null]
UserRef(u) == [kind |-> "User", id |-> u]
AgentRef(a) == [kind |-> "Agent", id |-> a]

\* req.user.office: the User schema stores officeId and has no path "office"
UserOffice(user) == Null

\* a || b on references
OrElse(a, b) == IF a # Null THEN a ELSE b

extractPropertyFields(body) ==
  [status |-> IF body.status = Absent THEN "active" ELSE body.status,
   listingAgent |-> body.listingAgent,
   listingOffice |-> body.listingOffice,
   seller |-> Null,
   requiredFields |-> body.requiredFields]

\* required paths of PropertySchema: listingAgent, listingOffice and the
\* descriptive fields (mlsNumber, title, price, ...)
PropertySchemaValid(doc) ==
  /\ doc.requiredFields
  /\ doc.listingAgent # NoRef
  /\ doc.listingOffice # Null

StoredProperty(doc) ==
  [status |-> doc.status, listingAgent |-> doc.listingAgent,
   listingOffice |-> doc.listingOffice, seller |-> doc.seller]

\* a manager may manage the properties of every office
canManageProperty_anyOffice(actor, user, property) ==
  \/ user.role = "admin"
  \/ user.role = "manager"
  \/ user.role = "agent" /\ UserRef(actor) = property.listingAgent

canManageProperty(actor, user, property) ==
  \/ user.role = "admin"
  \/ user.role = "manager" /\ UserOffice(user) = property.listingOffice
  \/ user.role = "agent" /\ UserRef(actor) = property.listingAgent

PropOut(props, res) == [properties |-> props, res |-> res]

\* property.save(): a ValidationError reaches errorHandler as 400
PropertySave(props, id, doc, res) ==
  IF PropertySchemaValid(doc)
  THEN PropOut(Put(props, id, StoredProperty(doc)), res)
  ELSE PropOut(props, Res(400, "Validation failed"))

\* a document read from the store has its descriptive fields
Loaded(property) ==
  [status |-> property.status, listingAgent |-> property.listingAgent,
   listingOffice |-> property.listingOffice, seller |-> property.seller,
   requiredFields |-> TRUE]

createPropertyRun(props, actor, user, body) ==
  IF user.role \notin {"admin", "manager", "agent"}
  THEN PropOut(props, Res(403, "Access denied"))
  ELSE
    LET data == extractPropertyFields(body)
        d1 == IF user.role = "agent"
              THEN [data EXCEPT !.listingAgent = UserRef(actor)] ELSE data
        d2 == IF user.role \in {"manager", "agent"}
              THEN [d1 EXCEPT !.listingOffice =
                                OrElse(UserOffice(user), data.listingOffice)]
              ELSE d1
    IN PropertySave(props, NextId(props), d2,
                    Res(201, "Property created successfully"))

\* Object.assign(property, updates): every extracted field is assigned
updatePropertyRun(props, actor, user, id, body) ==
  IF id \notin DOMAIN props THEN PropOut(props, Res(404, "Property not found"))
  ELSE IF ~canManageProperty(actor, user, props[id])
  THEN PropOut(props, Res(403, "Access denied"))
  ELSE PropertySave(props, id, extractPropertyFields(body),
                    Res(200, "Property updated successfully"))

deletePropertyRun(props, actor, user, id) ==
  IF id \notin DOMAIN props THEN PropOut(props, Res(404, "Property not found"))
  ELSE IF ~canManageProperty(actor, user, props[id])
  THEN PropOut(props, Res(403, "Access denied"))
  ELSE PropertySave(props, id,
                    [Loaded(props[id]) EXCEPT !.status = "off-market"],
                    Res(200, "Property deactivated successfully"))

submitPropertyRun(props, actor, user, body) ==
  IF user.role # "seller" THEN PropOut(props, Res(403, "Access denied"))
  ELSE PropertySave(props, NextId(props),
                    [extractPropertyFields(body) EXCEPT !.seller = actor,
                                                        !.status = "pending",
                                                        !.listingAgent = NoRef,
                                                        !.listingOffice = Null],
                    Res(201, "Property submitted for review"))

assignPropertyRun(props, actor, user, id, agentId, officeId) ==
  IF user.role \notin {"admin", "manager"}
  THEN PropOut(props, Res(403, "Access denied"))
  ELSE IF id \notin DOMAIN props
  THEN PropOut(props, Res(404, "Property not found"))
  ELSE PropertySave(props, id,
                    [Loaded(props[id]) EXCEPT
                       !.listingAgent = AgentRef(agentId),
                       !.listingOffice = OrElse(officeId, UserOffice(user)),
                       !.status = "active"],
                    Res(200, "Property assigned and activated successfully"))

\* ----------------------------------------------------------- UserController
Passwords == {"Passw0rd", "N3wPassw"}
ResetTokens == {"t1", "t2"}

\* user.comparePassword: bcrypt.compare of the candidate with the stored digest
comparePassword(user, candidate) == user.password = Hash("bcrypt", candidate)

WithUsers(db, u) == Db(u, db.agents, db.offices)

Without(f, k) == [x \in DOMAIN f \ {k} |-> f[x]]

deleteUserRun(db, actor, id, hardDelete) ==
  IF db.users[actor].role # "admin" /\ actor # id
  THEN Out(db, Res(403, "Insufficient permissions"))
  ELSE IF hardDelete /\ db.users[actor].role # "admin"
  THEN Out(db, Res(403, "Only admins can hard delete users"))
  ELSE IF id \notin DOMAIN db.users
  THEN Out(db, Res(404, "User not found"))
  ELSE IF hardDelete
  THEN Out(WithUsers(db, Without(db.users, id)),
           Res(200, "User permanently deleted successfully"))
  ELSE Out(WithUsers(db, Put(db.users, id,
                             [db.users[id] EXCEPT !.isActive = FALSE])),
           Res(200, "User deactivated successfully"))

changePasswordRun(db, actor, id, currentPassword, newPassword) ==
  IF actor # id
  THEN Out(db, Res(403, "Insufficient permissions"))
  ELSE IF id \notin DOMAIN db.users
  THEN Out(db, Res(400, "user not found"))
  ELSE IF ~comparePassword(db.users[id], currentPassword)
  THEN Out(db, Res(401, "Current password is incorrect"))
  ELSE Out(WithUsers(db, Put(db.users, id,
             [db.users[id] EXCEPT !.password = Hash("bcrypt", newPassword)])),
           Res(200, "Password changed successfully"))

addFavoritePropertyRun(db, props, actor, id, propertyId) ==
  IF actor # id
  THEN Out(db, Res(403, "Insufficient permissions"))
  ELSE IF propertyId \notin DOMAIN props
  THEN Out(db, Res(404, "Property not found"))
  ELSE IF id \notin DOMAIN db.users
  THEN Out(db, Res(200, "Property added to favorites"))
  ELSE Out(WithUsers(db, Put(db.users, id,
             [db.users[id] EXCEPT !.favoriteProperties = @ \cup {propertyId}])),
           Res(200, "Property added to favorites"))

removeFavoritePropertyRun(db, actor, id, propertyId) ==
  IF actor # id
  THEN Out(db, Res(403, "Insufficient permissions"))
  ELSE IF id \notin DOMAIN db.users
  THEN Out(db, Res(404, "User not found"))
  ELSE Out(WithUsers(db, Put(db.users, id,
             [db.users[id] EXCEPT !.favoriteProperties = @ \ {propertyId}])),
           Res(200, "Property removed from favorites"))

SearchIndex(user, searchId) ==
  {i \in DOMAIN user.savedSearches : user.savedSearches[i].id = searchId}

\* an admin may save a search for any account
addSavedSearchRun_adminBypass(db, actor, id, name) ==
  IF actor # id /\ db.users[actor].role # "admin"
  THEN Out(db, Res(403, "Insufficient permissions"))
  ELSE IF name = Absent
  THEN Out(db, Res(400, "Valid name and filters are required"))
  ELSE IF id \notin DOMAIN db.users
  THEN Out(db, Res(404, "User not found"))
  ELSE IF Len(db.users[id].savedSearches) >= SavedSearchLimit
  THEN Out(db, Res(400, "Maximum saved searches limit reached (10)"))
  ELSE LET user == db.users[id]
       IN Out(WithUsers(db, Put(db.users, id,
                [user EXCEPT !.savedSearches =
                    Append(@, SavedSearch(NextSearchId(user), name))])),
              Res(201, "Search saved successfully"))

addSavedSearchRun(db, actor, id, name) ==
  IF actor # id
  THEN Out(db, Res(403, "Insufficient permissions"))
  ELSE IF name = Absent
  THEN Out(db, Res(400, "Valid name and filters are required"))
  ELSE IF id \notin DOMAIN db.users
  THEN Out(db, Res(404, "User not found"))
  ELSE IF Len(db.users[id].savedSearches) >= SavedSearchLimit
  THEN Out(db, Res(400, "Maximum saved searches limit reached (10)"))
  ELSE LET user == db.users[id]
       IN Out(WithUsers(db, Put(db.users, id,
                [user EXCEPT !.savedSearches =
                    Append(@, SavedSearch(NextSearchId(user), name))])),
              Res(201, "Search saved successfully"))

updateSavedSearchRun(db, actor, id, searchId, name) ==
  IF actor # id
  THEN Out(db, Res(403, "Insufficient permissions"))
  ELSE IF id \notin DOMAIN db.users
  THEN Out(db, Res(404, "User not found"))
  ELSE IF SearchIndex(db.users[id], searchId) = {}
  THEN Out(db, Res(404, "Saved search not found"))
  ELSE LET user == db.users[id]
           i == CHOOSE j \in SearchIndex(user, searchId) :
                  \A k \in SearchIndex(user, searchId) : j <= k
           u1 == IF name # Absent
                 THEN [user EXCEPT !.savedSearches[i].name = name]
                 ELSE user
       IN Out(WithUsers(db, Put(db.users, id, u1)),
              Res(200, "Saved search updated successfully"))

deleteSavedSearchRun(db, actor, id, searchId) ==
  IF actor # id
  THEN Out(db, Res(403, "Insufficient permissions"))
  ELSE IF id \notin DOMAIN db.users
  THEN Out(db, Res(404, "User not found"))
  ELSE IF SearchIndex(db.users[id], searchId) = {}
  THEN Out(db, Res(404, "Saved search not found"))
  ELSE LET user == db.users[id]
           keep(search) == search.id # searchId
       IN Out(WithUsers(db, Put(db.users, id,
                [user EXCEPT !.savedSearches = SelectSeq(@, keep)])),
              Res(200, "Saved search deleted successfully"))

\* body.has names the preferences the request carries
updatePreferencesRun(db, actor, id, body) ==
  IF actor # id
  THEN Out(db, Res(403, "Insufficient permissions"))
  ELSE IF body.has = {}
  THEN Out(db, Res(400, "No valid preferences provided for update"))
  ELSE IF id \notin DOMAIN db.users
  THEN Out(db, Res(404, "User not found"))
  ELSE LET user == db.users[id]
           u1 == IF "propertyTypes" \in body.has
                 THEN [user EXCEPT !.preferences.propertyTypes =
                                       body.propertyTypes]
                 ELSE user
           u2 == IF "notifications" \in body.has
                 THEN [u1 EXCEPT !.preferences.notifications =
                                     body.notifications]
                 ELSE u1
       IN Out(WithUsers(db, Put(db.users, id, u2)),
              Res(200, "Preferences updated successfully"))

GenericReset ==
  "If an account exists with this email, a password reset link has been sent"

\* an unknown email is reported to the caller
forgotPasswordRun_revealing(db, email, resetToken) ==
  IF email \in DOMAIN db.users
  THEN Out(WithUsers(db, Put(db.users, email,
             [db.users[email] EXCEPT
                !.passwordResetToken = Hash("sha256", resetToken)])),
           Res(200, GenericReset))
  ELSE Out(db, Res(404, "User with this email does not exist"))

forgotPasswordRun(db, email, resetToken) ==
  IF email \in DOMAIN db.users
  THEN Out(WithUsers(db, Put(db.users, email,
             [db.users[email] EXCEPT
                !.passwordResetToken = Hash("sha256", resetToken)])),
           Res(200, GenericReset))
  ELSE Out(db, Res(200, GenericReset))

\* expired: more than the hour of passwordResetExpires has passed
ResetCandidates(db, token, expired) ==
  {u \in DOMAIN db.users :
     db.users[u].passwordResetToken = Hash("sha256", token) /\ ~expired}

resetPasswordRun(db, token, newPassword, expired) ==
  IF ResetCandidates(db, token, expired) = {}
  THEN Out(db, Res(400, "Invalid or expired reset token"))
  ELSE LET id == CHOOSE u \in ResetCandidates(db, token, expired) : TRUE
       IN Out(WithUsers(db, Put(db.users, id,
                [db.users[id] EXCEPT !.password = Hash("bcrypt", newPassword),
                                     !.passwordResetToken = NoDigest])),
              Res(200, "Password reset successfully"))

\* ----------------------------------------------------------- AuthController
\* the token names the account the verification mail was sent to
verifyEmailRun(db, userId) ==
  IF userId \notin DOMAIN db.users
  THEN Out(db, Res(404, "User not found"))
  ELSE IF db.users[userId].emailVerified
  THEN Out(db, Res(200, "Email is already verified. You can log in."))
  ELSE Out(WithUsers(db, Put(db.users, userId,
             [db.users[userId] EXCEPT !.emailVerified = TRUE])),
           Res(200, "Email verified successfully. You can now log in."))

\* the account is looked up by its email; a successful login stamps lastLogin
loginRun(db, email, password, now) ==
  IF email \notin DOMAIN db.users
  THEN Out(db, Res(401, "Invalid email or password"))
  ELSE IF ~db.users[email].isActive
  THEN Out(db, Res(403, "User account is deactivated"))
  ELSE IF ~comparePassword(db.users[email], password)
  THEN Out(db, Res(401, "Invalid email or password"))
  ELSE IF ~db.users[email].emailVerified
  THEN Out(db, Res(403, "Please verify your email before logging in"))
  ELSE Out(WithUsers(db, Put(db.users, email,
             [db.users[email] EXCEPT !.lastLogin = now])),
           Res(200, "Login successful"))

\* the refreshToken cookie: missing, not verifiable, or a verified token of
\* type access or refresh that names userId
Cookies == {"none", "invalid", "access", "refresh"}

refreshTokenRun(db, cookie, userId) ==
  IF cookie = "none"
  THEN Out(db, Res(401, "No refresh token provided"))
  ELSE IF cookie = "invalid"
  THEN Out(db, Res(401, "Invalid or expired refresh token"))
  ELSE IF cookie # "refresh"
  THEN Out(db, Res(401, "Invalid token type"))
  ELSE IF userId \notin DOMAIN db.users
  THEN Out(db, Res(404, "User not found"))
  ELSE IF ~db.users[userId].isActive
  THEN Out(db, Res(403, "User account is deactivated"))
  ELSE Out(db, Res(200, "Token refreshed successfully"))

\* ----------------------------------------------------- onboarding functions
\* additionalRoles is not a path of UserSchema: a loaded document has no such
\* property and reading .includes of it throws a TypeError
addRoleRun(db, actor, role) ==
  LET user == db.users[actor]
  IN IF "additionalRoles" \notin DOMAIN user
     THEN Out(db, Res(500, "TypeError"))
     ELSE IF ~InSeq(role, user.additionalRoles)
     THEN Out(WithUsers(db, Put(db.users, actor,
                [user EXCEPT !.additionalRoles = Append(@, role)])),
              Res(200, "roles"))
     ELSE Out(db, Res(200, "roles"))

\* ------------------------------------------------------------------ actions
CurDb == Db(users, agents, offices)

\* req.user is set by authenticateToken alone: a handler that reads it runs
\* only for a token whose account is stored and active
authenticateToken_anyStored(db, actor) ==
  actor \in DOMAIN db.users

authenticateToken(db, actor) ==
  actor \in DOMAIN db.users /\ db.users[actor].isActive

\* authenticateToken is an async middleware that throws from its catch block:
\* the rejection reaches errorHandler (401) where the router forwards rejected
\* promises, and is left unhandled, the request unanswered, where it does not
Authenticated(actor, out) ==
  IF authenticateToken(CurDb, actor)
  THEN {out}
  ELSE {Out(CurDb, res) : res \in {Res(401, "Invalid or expired token"),
                                   Unanswered}}

OnboardingData == [propertyTypes : 0..1]

\* a request that names an actor has passed authenticateToken; the public
\* routes name none
Commit(out, op, actor, id, arg) ==
  \E o \in IF actor = Null THEN {out} ELSE Authenticated(actor, out) :
    /\ steps' = steps + 1
    /\ users' = o.users
    /\ agents' = o.agents
    /\ offices' = o.offices
    /\ last' = Last(op, actor, id, arg, o.res)
    /\ UNCHANGED <<reqs, properties>>

\* the ids a request can name: every stored document, and one that is not stored
AgentIds == DOMAIN agents \cup {UnknownAgent}
OfficeIds == DOMAIN offices \cup {DanglingOffice}

register ==
  /\ steps < MaxSteps
  /\ \E email \in UserIds, role \in Roles :
      /\ email <= NextId(users)
      /\ Commit(registerRun(CurDb, email, role), "register", Null, email, role)

selectRole ==
  /\ steps < MaxSteps
  /\ \E actor \in DOMAIN users, id \in UserIds, role \in Roles :
      Commit(selectRoleRun(CurDb, actor, id, role),
             "selectRole", actor, id, role)

completeOnboarding ==
  /\ steps < MaxSteps
  /\ \E actor \in DOMAIN users, id \in UserIds, role \in Roles,
        data \in OnboardingData :
      /\ role = "buyer" \/ data.propertyTypes = 0
      /\ Commit(completeOnboardingRun(CurDb, actor, id, role, data),
                "completeOnboarding", actor, id, role)

Payload(office) == IF office = BadId THEN "invalid" ELSE "valid"

apply ==
  /\ steps < MaxSteps
  /\ \E actor \in DOMAIN users, office \in DOMAIN offices \cup {DanglingOffice, BadId} :
      LET out == applyRun(CurDb, actor, office) IN
        /\ Cardinality(DOMAIN out.agents) <= MaxAgents
        /\ Commit(out, "apply", actor, Null, Payload(office))

verifyAgent ==
  /\ steps < MaxSteps
  /\ \E actor \in DOMAIN users, id \in AgentIds, action \in VerifyActions :
      Commit(verifyAgentRun(CurDb, actor, id, action),
             "verifyAgent", actor, id, action)

applyForManager ==
  /\ steps < MaxSteps
  /\ \E actor \in DOMAIN users :
      Commit(applyForManagerRun(CurDb, actor), "applyForManager", actor, Null, "")

completeAgentOnboarding ==
  /\ steps < MaxSteps
  /\ \E actor \in DOMAIN users, office \in DOMAIN offices \cup {DanglingOffice, BadId},
       isActive \in BOOLEAN :
      LET out == completeAgentOnboardingRun(CurDb, actor, office, isActive) IN
        /\ Cardinality(DOMAIN out.agents) <= MaxAgents
        /\ Commit(out, "completeAgentOnboarding", actor, Null, Payload(office))

OnboardingController_completeAgentOnboarding ==
  /\ steps < MaxSteps
  /\ \E actor \in DOMAIN users, office \in DOMAIN offices \cup {DanglingOffice, BadId} :
      LET out == OnboardingController_completeAgentOnboardingRun(CurDb, actor, office) IN
        /\ Cardinality(DOMAIN out.agents) <= MaxAgents
        /\ Commit(out, "OnboardingController.completeAgentOnboarding",
                  actor, Null, Payload(office))

\* request bodies: no field, profile fields only, a role, an agentId or a
\* deactivation (preferences come as a list of at most one)
NoFields ==
  [role |-> Absent, isActive |-> Absent, agentId |-> Null, profile |-> FALSE,
   preferences |-> <<>>]

UpdateBodies ==
  {[NoFields EXCEPT !.profile = p] : p \in BOOLEAN}
     \cup {[NoFields EXCEPT !.role = r] : r \in Roles}
     \cup {[NoFields EXCEPT !.agentId = a] : a \in DOMAIN agents}
     \cup {[NoFields EXCEPT !.isActive = "false"]}

updateUser ==
  /\ steps < MaxSteps
  /\ \E actor \in DOMAIN users, id \in UserIds, body \in UpdateBodies :
      Commit(updateUserRun(CurDb, actor, id, body), "updateUser", actor, id,
             body.role)

FindOne(set) == IF set = {} THEN {Null} ELSE set

OfficeBodies ==
  [manager : AgentIds \cup {Null}, franchiseId : FranchiseIds \cup {""},
   requiredFields : BOOLEAN]

\* a store failure can only hit a request that reaches its writes
FailuresAfter(check) == IF check = NoErr THEN StoreFailures ELSE {"none"}

createOffice ==
  /\ steps < MaxSteps
  /\ \E actor \in DOMAIN users, body \in OfficeBodies :
      \E managerUser \in FindOne(UsersWithAgent(CurDb, body.manager)) :
       \E fail \in FailuresAfter(createOfficeCheck(CurDb, actor, body, managerUser)) :
        LET out == createOfficeRun(CurDb, actor, body, managerUser, fail) IN
          /\ Cardinality(DOMAIN out.offices) <= MaxOffices
          /\ Commit(out, "createOffice", actor, body.manager,
                    IF /\ createOfficeCheck(CurDb, actor, body, managerUser) = NoErr
                       /\ body.requiredFields
                       /\ fail = "none"
                    THEN "valid" ELSE fail)

OfficeUpdates ==
  [manager : AgentIds \cup {Null}, isActive : {Absent, "true", "false"}]

updateOffice ==
  /\ steps < MaxSteps
  /\ \E actor \in DOMAIN users, id \in OfficeIds, body \in OfficeUpdates :
     \E fail \in FailuresAfter(officeAccessCheck(CurDb, actor, id)) :
      \E newManagerUser \in FindOne(UsersWithAgent(CurDb, body.manager)) :
        Commit(updateOfficeRun(CurDb, actor, id, body, newManagerUser, fail),
               "updateOffice", actor, id, fail)

deleteOffice ==
  /\ steps < MaxSteps
  /\ \E actor \in DOMAIN users, id \in OfficeIds :
     \E fail \in FailuresAfter(officeAccessCheck(CurDb, actor, id)) :
      Commit(deleteOfficeRun(CurDb, actor, id, fail), "deleteOffice", actor, id, fail)

\* ------------------------------------------- apply(), one store call per step
\* Concurrent requests: each await of AgentController.apply is a step of its own.
Respond(r, status, msg) ==
  /\ reqs' = [reqs EXCEPT ![r].pc = "done", ![r].status = status]
  /\ last' = Last("apply", reqs[r].actor, r, Payload(reqs[r].office),
                  Res(status, msg))

\* const user = await User.findById(userId)
applyFindUser ==
  \E r \in RequestIds, actor \in DOMAIN users, office \in {DanglingOffice, BadId} :
    /\ reqs[r].pc = "idle"
    /\ \A q \in RequestIds : q < r => reqs[q].pc # "idle"
    /\ IF applyAlreadyVerified(users[actor])
       THEN /\ reqs' = [reqs EXCEPT ![r] = [pc |-> "done", actor |-> actor,
                                            office |-> office, agent |-> Null,
                                            status |-> 400]]
            /\ last' = Last("apply", actor, r, Payload(office),
                            Res(400, "You are already a verified agent"))
       ELSE /\ reqs' = [reqs EXCEPT ![r] = [pc |-> "findAgent", actor |-> actor,
                                            office |-> office, agent |-> Null,
                                            status |-> 0]]
            /\ last' = Last("apply.findUser", actor, r, Payload(office), NoErr)
    /\ UNCHANGED <<users, agents, offices, properties, steps>>

\* const existingAgent = await Agent.findOne({ userId })
applyFindAgent ==
  \E r \in RequestIds :
    /\ reqs[r].pc = "findAgent"
    /\ IF AgentsOf(CurDb, reqs[r].actor) # {}
       THEN Respond(r, 400, "Agent application already submitted")
       ELSE /\ reqs' = [reqs EXCEPT ![r].pc = "create"]
            /\ last' = Last("apply.findAgent", reqs[r].actor, r,
                            Payload(reqs[r].office), NoErr)
    /\ UNCHANGED <<users, agents, offices, properties, steps>>

\* const agent = await Agent.create({ userId, ..., isActive: false })
applyCreate ==
  \E r \in RequestIds :
    /\ reqs[r].pc = "create"
    /\ IF ~AgentSchemaValid(NewAgent(reqs[r].actor, reqs[r].office, FALSE))
       THEN /\ Respond(r, 400, "Validation failed")
            /\ UNCHANGED agents
       ELSE /\ NextId(agents) <= MaxAgents
            /\ agents' = Put(agents, NextId(agents),
                             NewAgent(reqs[r].actor, reqs[r].office, FALSE))
            /\ reqs' = [reqs EXCEPT ![r].pc = "save", ![r].agent = NextId(agents)]
            /\ last' = Last("apply.create", reqs[r].actor, r,
                            Payload(reqs[r].office), NoErr)
    /\ UNCHANGED <<users, offices, properties, steps>>

\* user.agentVerificationStatus = "pending"; user.agentId = agent._id;
\* await user.save()
applySaveUser ==
  \E r \in RequestIds :
    /\ reqs[r].pc = "save"
    /\ users' = [users EXCEPT ![reqs[r].actor].agentVerificationStatus = "pending",
                              ![reqs[r].actor].agentId = reqs[r].agent]
    /\ Respond(r, 201, "Agent application submitted successfully")
    /\ UNCHANGED <<agents, offices, properties, steps>>

Init ==
  /\ users = <<>>
  /\ agents = <<>>
  /\ offices = <<>>
  /\ properties = <<>>
  /\ reqs = [r \in RequestIds |-> IdleReq]
  /\ last = Last("none", Null, Null, "", Res(0, ""))
  /\ steps = 0

Next ==
  \/ register
  \/ selectRole
  \/ completeOnboarding
  \/ apply
  \/ verifyAgent
  \/ applyForManager
  \/ completeAgentOnboarding
  \/ OnboardingController_completeAgentOnboarding
  \/ updateUser
  \/ createOffice
  \/ updateOffice
  \/ deleteOffice

Spec == Init /\ [][Next]_vars

NextConcurrent ==
  \/ register
  \/ verifyAgent
  \/ applyFindUser
  \/ applyFindAgent
  \/ applyCreate
  \/ applySaveUser

SpecConcurrent == Init /\ [][NextConcurrent]_vars

\* --------------------------------------------------- a store holding an office
\* Office documents cannot come from createOffice (its document lacks a required
\* path), so a store that holds one is the starting point here: office 1 as
\* createOffice assembles it, managed by the verified Agent Profile 1 of account
\* 1, beside account 2 with the verified Agent Profile 2 of another office.
\* Seeding the store is counted as one request of the budget.
SeededUser(role, agentId, officeId) ==
  [NewUser(role) EXCEPT !.agentVerificationStatus = "verified",
                        !.agentId = agentId,
                        !.officeId = officeId]

SeededOffice ==
  [StoredOffice(OfficePreSave(BuildOfficeData(
      [manager |-> 1, franchiseId |-> "RMX-100", requiredFields |-> TRUE], 1),
      TRUE))
   EXCEPT !.isActive = TRUE]

InitSeeded ==
  /\ \E role \in {"agent", "admin"} :
       users = <<SeededUser("manager", 1, 1), SeededUser(role, 2, Null)>>
  /\ agents = <<NewAgent(1, 1, TRUE), NewAgent(2, DanglingOffice, TRUE)>>
  /\ offices = <<SeededOffice>>
  /\ properties = <<>>
  /\ reqs = [r \in RequestIds |-> IdleReq]
  /\ last = Last("none", Null, Null, "", Res(0, ""))
  /\ steps = 1

\* the handlers that read or write offices, and those that change what they read
NextSeeded ==
  \/ selectRole
  \/ verifyAgent
  \/ applyForManager
  \/ updateUser
  \/ createOffice
  \/ updateOffice
  \/ deleteOffice

SpecSeeded == InitSeeded /\ [][NextSeeded]_vars

\* ------------------------------------------------------ property listings
CommitProperty(out, op, actor, id, arg) ==
  /\ steps' = steps + 1
  /\ properties' = out.properties
  /\ last' = Last(op, actor, id, arg, out.res)
  /\ UNCHANGED <<users, agents, offices, reqs>>

\* request bodies that passed validatePropertyFields
\* the statuses the requests name: one that lists and one that withdraws
BodyStatuses == {"active", "off-market", Absent}

PropertyBodies ==
  [status : BodyStatuses,
   listingAgent : {NoRef} \cup {AgentRef(a) : a \in DOMAIN agents},
   listingOffice : DOMAIN offices \cup {DanglingOffice, Null},
   requiredFields : BOOLEAN]

createProperty ==
  /\ steps < MaxSteps
  /\ \E actor \in DOMAIN users, body \in PropertyBodies :
      LET out == createPropertyRun(properties, actor, users[actor], body) IN
        /\ Cardinality(DOMAIN out.properties) <= MaxProperties
        /\ CommitProperty(out, "createProperty", actor, Null, body.status)

updateProperty ==
  /\ steps < MaxSteps
  /\ \E actor \in DOMAIN users, id \in PropertyIds, body \in PropertyBodies :
      CommitProperty(updatePropertyRun(properties, actor, users[actor], id, body),
                     "updateProperty", actor, id, body.status)

deleteProperty ==
  /\ steps < MaxSteps
  /\ \E actor \in DOMAIN users, id \in PropertyIds :
      CommitProperty(deletePropertyRun(properties, actor, users[actor], id),
                     "deleteProperty", actor, id, "")

submitProperty ==
  /\ steps < MaxSteps
  /\ \E actor \in DOMAIN users, body \in PropertyBodies :
      LET out == submitPropertyRun(properties, actor, users[actor], body) IN
        /\ Cardinality(DOMAIN out.properties) <= MaxProperties
        /\ CommitProperty(out, "submitProperty", actor, Null,
                          IF body.requiredFields THEN "valid" ELSE "invalid")

assignProperty ==
  /\ steps < MaxSteps
  /\ \E actor \in DOMAIN users, id \in PropertyIds, agentId \in DOMAIN agents,
       officeId \in DOMAIN offices \cup {Null} :
      CommitProperty(assignPropertyRun(properties, actor, users[actor], id,
                                       agentId, officeId),
                     "assignProperty", actor, id,
                     [agentId |-> agentId, officeId |-> officeId])

\* the accounts that list properties: the manager of office 1 and an admin, an
\* agent, a seller or a manager whose officeId a deleteOffice has unset
InitProperty ==
  /\ \E role \in {"admin", "agent", "seller", "manager"} :
       users = <<SeededUser("manager", 1, 1),
                 IF role = "seller" THEN NewUser(role)
                 ELSE SeededUser(role, 2, Null)>>
  /\ agents = <<NewAgent(1, 1, TRUE), NewAgent(2, DanglingOffice, TRUE)>>
  /\ offices = <<SeededOffice>>
  /\ properties = <<>>
  /\ reqs = [r \in RequestIds |-> IdleReq]
  /\ last = Last("none", Null, Null, "", Res(0, ""))
  /\ steps = 1

NextProperty ==
  \/ createProperty
  \/ updateProperty
  \/ deleteProperty
  \/ submitProperty
  \/ assignProperty

SpecProperty == InitProperty /\ [][NextProperty]_vars

\* ------------------------------------------------------- account self-service
\* an email or a token of an account the store does not hold
UnknownUser == MaxUsers + 1

PreferenceBodies ==
  [has : SUBSET {"propertyTypes", "notifications"},
   propertyTypes : {1}, notifications : {FALSE}]

\* the searches the requests name: the oldest one and the one past the limit
ProbedSearches == {1, SavedSearchLimit + 1}

deleteUser ==
  /\ steps < MaxSteps
  /\ \E actor \in DOMAIN users, id \in UserIds, hardDelete \in BOOLEAN :
      Commit(deleteUserRun(CurDb, actor, id, hardDelete),
             "deleteUser", actor, id, IF hardDelete THEN "hard" ELSE "soft")

changePassword ==
  /\ steps < MaxSteps
  /\ \E actor \in DOMAIN users, id \in UserIds,
        currentPassword \in Passwords, newPassword \in Passwords :
      Commit(changePasswordRun(CurDb, actor, id, currentPassword, newPassword),
             "changePassword", actor, id, newPassword)

addFavoriteProperty ==
  /\ steps < MaxSteps
  /\ \E actor \in DOMAIN users, id \in UserIds,
        propertyId \in PropertyIds \cup {MaxProperties + 1} :
      Commit(addFavoritePropertyRun(CurDb, properties, actor, id, propertyId),
             "addFavoriteProperty", actor, id, propertyId)

removeFavoriteProperty ==
  /\ steps < MaxSteps
  /\ \E actor \in DOMAIN users, id \in UserIds, propertyId \in PropertyIds :
      Commit(removeFavoritePropertyRun(CurDb, actor, id, propertyId),
             "removeFavoriteProperty", actor, id, propertyId)

addSavedSearch ==
  /\ steps < MaxSteps
  /\ \E actor \in DOMAIN users, id \in UserIds, name \in {"Hill", Absent} :
      Commit(addSavedSearchRun(CurDb, actor, id, name),
             "addSavedSearch", actor, id, name)

updateSavedSearch ==
  /\ steps < MaxSteps
  /\ \E actor \in DOMAIN users, id \in UserIds, searchId \in ProbedSearches,
        name \in {"Hill", Absent} :
      Commit(updateSavedSearchRun(CurDb, actor, id, searchId, name),
             "updateSavedSearch", actor, id, searchId)

deleteSavedSearch ==
  /\ steps < MaxSteps
  /\ \E actor \in DOMAIN users, id \in UserIds, searchId \in ProbedSearches :
      Commit(deleteSavedSearchRun(CurDb, actor, id, searchId),
             "deleteSavedSearch", actor, id, searchId)

updatePreferences ==
  /\ steps < MaxSteps
  /\ \E actor \in DOMAIN users, id \in UserIds, body \in PreferenceBodies :
      Commit(updatePreferencesRun(CurDb, actor, id, body),
             "updatePreferences", actor, id, body)

addRole ==
  /\ steps < MaxSteps
  /\ \E actor \in DOMAIN users, role \in OnboardingRoles :
      Commit(addRoleRun(CurDb, actor, role),
             "addRole", actor, actor, role)

\* crypto.randomBytes: a token no account holds
forgotPassword ==
  /\ steps < MaxSteps
  /\ \E email \in UserIds \cup {UnknownUser}, resetToken \in ResetTokens :
      /\ \A u \in DOMAIN users :
           users[u].passwordResetToken # Hash("sha256", resetToken)
      /\ Commit(forgotPasswordRun(CurDb, email, resetToken),
                "forgotPassword", Null, email, resetToken)

resetPassword ==
  /\ steps < MaxSteps
  /\ \E token \in ResetTokens, newPassword \in Passwords, expired \in BOOLEAN :
      Commit(resetPasswordRun(CurDb, token, newPassword, expired),
             "resetPassword", Null, Null, token)

verifyEmail ==
  /\ steps < MaxSteps
  /\ \E userId \in UserIds \cup {UnknownUser} :
      Commit(verifyEmailRun(CurDb, userId), "verifyEmail", Null, userId, "")

\* account 1 with no saved search or one short of the limit, account 2 an
\* admin, and one listing; seeding the store takes two requests of the budget
SeededSearches(n) == [i \in 1..n |-> SavedSearch(i, "Lake")]

SeededListing ==
  StoredProperty(extractPropertyFields(
    [status |-> Absent, listingAgent |-> UserRef(2),
     listingOffice |-> DanglingOffice, requiredFields |-> TRUE]))

InitAccount ==
  /\ \E role \in {"buyer", "seller"}, n \in {0, SavedSearchLimit - 1} :
       users = <<[NewUser(role) EXCEPT !.savedSearches = SeededSearches(n)],
                 NewUser("admin")>>
  /\ agents = <<>>
  /\ offices = <<>>
  /\ properties = <<SeededListing>>
  /\ reqs = [r \in RequestIds |-> IdleReq]
  /\ last = Last("none", Null, Null, "", Res(0, ""))
  /\ steps = 2

NextAccount ==
  \/ selectRole
  \/ completeOnboarding
  \/ deleteUser
  \/ changePassword
  \/ addFavoriteProperty
  \/ removeFavoriteProperty
  \/ addSavedSearch
  \/ updateSavedSearch
  \/ deleteSavedSearch
  \/ updatePreferences
  \/ addRole
  \/ forgotPassword
  \/ resetPassword
  \/ verifyEmail

SpecAccount == InitAccount /\ [][NextAccount]_vars

\* ------------------------------------------------- sessions of one account
\* request bodies: an isActive, preferences only, or every field at once
AccountBodies ==
  {[NoFields EXCEPT !.isActive = b] : b \in {"true", "false"}}
     \cup {[NoFields EXCEPT !.preferences
                = <<[propertyTypes |-> 1, notifications |-> TRUE]>>],
           [role |-> "admin", isActive |-> "false", agentId |-> 1,
            profile |-> TRUE,
            preferences |-> <<[propertyTypes |-> 1, notifications |-> FALSE]>>]}

updateUserFields ==
  /\ steps < MaxSteps
  /\ \E actor \in DOMAIN users, id \in UserIds, body \in AccountBodies :
      Commit(updateUserRun(CurDb, actor, id, body), "updateUser", actor, id,
             body.role)

login ==
  /\ steps < MaxSteps
  /\ \E email \in UserIds \cup {UnknownUser}, password \in Passwords :
      Commit(loginRun(CurDb, email, password, steps + 1),
             "login", Null, email, password)

refreshToken ==
  /\ steps < MaxSteps
  /\ \E cookie \in Cookies, userId \in UserIds \cup {UnknownUser} :
      Commit(refreshTokenRun(CurDb, cookie, userId),
             "refreshToken", Null, userId, cookie)

\* account 1 a verified buyer or seller, account 2 a verified admin; seeding
\* the store takes one request of the budget
InitSession ==
  /\ \E role \in {"buyer", "seller"} :
       users = <<[NewUser(role) EXCEPT !.emailVerified = TRUE],
                 [NewUser("admin") EXCEPT !.emailVerified = TRUE]>>
  /\ agents = <<>>
  /\ offices = <<>>
  /\ properties = <<>>
  /\ reqs = [r \in RequestIds |-> IdleReq]
  /\ last = Last("none", Null, Null, "", Res(0, ""))
  /\ steps = 1

NextSession ==
  \/ login
  \/ refreshToken
  \/ deleteUser
  \/ updateUserFields
  \/ changePassword

SpecSession == InitSession /\ [][NextSession]_vars

\* ------------------------------------------------- verifyAgent, step by step
\* the awaits of verifyAgent, each one a step other requests can interleave with
VerifyReq(pc, actor, agent, action, status) ==
  [pc |-> pc, actor |-> actor, office |-> Null, agent |-> agent,
   status |-> status, action |-> action]

\* const agent = await Agent.findById(id).populate("userId")
verifyFindAgent ==
  \E r \in RequestIds, actor \in DOMAIN users, id \in AgentIds,
     action \in VerifyActions :
    /\ reqs[r].pc = "idle"
    /\ \A q \in RequestIds : q < r => reqs[q].pc # "idle"
    /\ IF users[actor].role # "admin"
       THEN /\ reqs' = [reqs EXCEPT ![r] = VerifyReq("done", actor, id, action, 403)]
            /\ last' = Last("verifyAgent", actor, id, action,
                            Res(403, "Unauthorized access"))
       ELSE IF id \notin DOMAIN agents
       THEN /\ reqs' = [reqs EXCEPT ![r] = VerifyReq("done", actor, id, action, 404)]
            /\ last' = Last("verifyAgent", actor, id, action,
                            Res(404, "Agent not found"))
       ELSE /\ reqs' = [reqs EXCEPT ![r] =
                          VerifyReq("saveAgent", actor, id, action, 0)]
            /\ last' = Last("verifyAgent.findAgent", actor, id, action, NoErr)
    /\ UNCHANGED <<users, agents, offices, properties, steps>>

\* agent.isActive = action === "approve"; await agent.save()
verifySaveAgent ==
  \E r \in RequestIds :
    /\ reqs[r].pc = "saveAgent"
    /\ agents' = [agents EXCEPT ![reqs[r].agent].isActive =
                                    (reqs[r].action = "approve")]
    /\ reqs' = [reqs EXCEPT ![r].pc = "updateUser"]
    /\ last' = Last("verifyAgent.saveAgent", reqs[r].actor, reqs[r].agent,
                    reqs[r].action, NoErr)
    /\ UNCHANGED <<users, offices, properties, steps>>

\* await User.findByIdAndUpdate(agent.userId._id, { agentVerificationStatus })
verifyUpdateUser ==
  \E r \in RequestIds :
    /\ reqs[r].pc = "updateUser"
    /\ LET userId == agents[reqs[r].agent].userId IN
         users' = IF userId \in DOMAIN users
                  THEN [users EXCEPT ![userId].agentVerificationStatus =
                                         verifyStatus(reqs[r].action)]
                  ELSE users
    /\ reqs' = [reqs EXCEPT ![r].pc = "done", ![r].status = 200]
    /\ last' = Last("verifyAgent", reqs[r].actor, reqs[r].agent, reqs[r].action,
                    Res(200, IF reqs[r].action = "approve"
                             THEN "Agent verified" ELSE "Agent rejected"))
    /\ UNCHANGED <<agents, offices, properties, steps>>

\* an applicant as apply leaves them (status pending, inactive Agent Profile 1)
\* and an admin
InitVerify ==
  /\ users = <<[NewUser("agent") EXCEPT !.agentVerificationStatus = "pending",
                                        !.agentId = 1],
               NewUser("admin")>>
  /\ agents = <<NewAgent(1, DanglingOffice, FALSE)>>
  /\ offices = <<>>
  /\ properties = <<>>
  /\ reqs = [r \in RequestIds |-> IdleReq]
  /\ last = Last("none", Null, Null, "", Res(0, ""))
  /\ steps = 0

NextVerify ==
  \/ verifyFindAgent
  \/ verifySaveAgent
  \/ verifyUpdateUser

SpecVerify == InitVerify /\ [][NextVerify]_vars

\* ======================================================== checked properties
StoreUnchanged == users' = users /\ agents' = agents /\ offices' = offices

\* C1: immediately after a successful completeOnboarding or selectRole call,
\* the account's isProfileComplete equals onboardingCompleted[primaryRole].
C1_ProfileCompleteDerived ==
  (last.op \in {"selectRole", "completeOnboarding"} /\ last.status = 200)
    => users[last.id].isProfileComplete = OnboardingDone(users[last.id])

\* C2: of two concurrent apply() requests of one account with valid payloads,
\* exactly one succeeds and the other fails, and no account ever owns two
\* Agent Profiles.
C2_ConcurrentApplyOnce ==
  /\ \A u \in DOMAIN users : Cardinality(AgentsOf(CurDb, u)) <= 1
  /\ \A r1, r2 \in RequestIds :
       (/\ r1 # r2
        /\ reqs[r1].pc = "done" /\ reqs[r2].pc = "done"
        /\ reqs[r1].actor = reqs[r2].actor
        /\ reqs[r1].office # BadId /\ reqs[r2].office # BadId)
       => {reqs[r1].status, reqs[r2].status} = {201, 400}

\* C3: after any sequence of requests that can create an Agent Profile, each
\* account owns at most one Agent Profile.
C3_SingleAgentProfile ==
  \A u \in DOMAIN users :
    \A a1, a2 \in DOMAIN agents :
      (agents[a1].userId = u /\ agents[a2].userId = u) => a1 = a2

\* C4: an account whose agentVerificationStatus is rejected can apply() again;
\* the call succeeds and moves the status back to pending.
C4_RejectedCanReapply ==
  [][(/\ last'.op = "apply" /\ last'.arg = "valid"
      /\ users[last'.actor].agentVerificationStatus = "rejected")
     => (/\ last'.status = 201
         /\ users'[last'.actor].agentVerificationStatus = "pending")]_vars

\* C5: for an account whose agentVerificationStatus is verified, every apply()
\* fails with status 400 and leaves accounts, Agent Profiles and offices as
\* they were. (apply() runs for the requests that passed authenticateToken.)
C5_VerifiedCannotReapply ==
  [][(/\ last'.op = "apply"
      /\ authenticateToken(CurDb, last'.actor)
      /\ users[last'.actor].agentVerificationStatus = "verified")
     => (last'.status = 400 /\ StoreUnchanged)]_vars

C5_Witness ==
  /\ last.op = "apply" /\ last.status = 400
  /\ users[last.actor].agentVerificationStatus = "verified"
  /\ last.msg = "You are already a verified agent"

\* C6: verified is terminal; no request changes an account's
\* agentVerificationStatus from verified to another value.
C6_VerifiedTerminal ==
  [][\A u \in DOMAIN users :
       users[u].agentVerificationStatus = "verified"
         => users'[u].agentVerificationStatus = "verified"]_vars

\* C7: createOffice is all-or-nothing; a createOffice request that does not
\* answer 201 persists no Office and changes no Agent Profile and no account,
\* and a new Office never appears without its manager account being updated.
C7_CreateOfficeAtomic ==
  [][/\ (last'.op = "createOffice" /\ last'.status # 201) => StoreUnchanged
     /\ (last'.op = "createOffice" /\ DOMAIN offices' # DOMAIN offices)
          => \E u \in DOMAIN users' :
               /\ users'[u].role = "manager"
               /\ users'[u].officeId \in DOMAIN offices' \ DOMAIN offices]_vars

C7_Witness ==
  /\ last.op = "createOffice" /\ last.status = 400
  /\ last.msg = "Validation failed"
  /\ last.id \in DOMAIN agents
  /\ \E u \in DOMAIN users :
       /\ users[u].agentId = last.id
       /\ users[u].agentVerificationStatus = "verified"
       /\ users[u].role # "manager"
  /\ offices = <<>>

\* C8: a createOffice request by an admin or manager that names a verified
\* Agent Profile A, a fresh franchiseId and all required office fields
\* succeeds, and produces an Office with manager = A, agents = [A] and
\* statistics.totalAgents = 1, sets A.office to it, and makes the owning
\* account a manager of that office.
C8_CreateOfficeSuccess ==
  (last.op = "createOffice" /\ last.arg = "valid")
    => /\ last.status = 201
       /\ \E o \in DOMAIN offices :
            /\ offices[o].manager = last.id
            /\ offices[o].agents = <<last.id>>
            /\ offices[o].totalAgents = 1
            /\ agents[last.id].office = o
            /\ users[agents[last.id].userId].role = "manager"
            /\ users[agents[last.id].userId].officeId = o

\* C9: apply() by an account without an Agent Profile creates an inactive
\* profile, links it to the account and sets the status to pending;
\* verify(approve) activates the profile and sets the status to verified,
\* verify(reject) leaves it inactive and sets the status to rejected.
\* (apply() runs for the requests that passed authenticateToken.)
C9_ApplyThenVerify ==
  [][/\ (/\ last'.op = "apply" /\ last'.arg = "valid"
         /\ authenticateToken(CurDb, last'.actor)
         /\ AgentsOf(CurDb, last'.actor) = {})
        => /\ last'.status = 201
           /\ \E a \in DOMAIN agents' \ DOMAIN agents :
                /\ agents'[a].userId = last'.actor
                /\ agents'[a].isActive = FALSE
                /\ users'[last'.actor].agentId = a
           /\ users'[last'.actor].agentVerificationStatus = "pending"
     /\ (last'.op = "verifyAgent" /\ last'.status = 200)
        => /\ agents'[last'.id].isActive = (last'.arg = "approve")
           /\ agents[last'.id].userId \in DOMAIN users
                => users'[agents[last'.id].userId].agentVerificationStatus
                     = (IF last'.arg = "approve" THEN "verified"
                                                 ELSE "rejected")]_vars

C9_Witness ==
  /\ last.op = "verifyAgent" /\ last.status = 200 /\ last.arg = "approve"
  /\ agents[last.id].isActive
  /\ users[agents[last.id].userId].agentId = last.id
  /\ users[agents[last.id].userId].agentVerificationStatus = "verified"

\* C10: an account's role becomes manager only in a createOffice or
\* updateOffice request; no other request sets a role to manager.
C10_ManagerOnlyViaOffice ==
  [][\A u \in DOMAIN users' :
       (/\ users'[u].role = "manager"
        /\ (u \notin DOMAIN users \/ users[u].role # "manager"))
       => last'.op \in {"createOffice", "updateOffice"}]_vars

C10_Witness ==
  /\ last.op = "updateUser" /\ last.arg = "manager" /\ last.status = 400
  /\ users[last.actor].role = "admin"
  /\ last.id \in DOMAIN users
  /\ users[last.id].role # "manager"

\* C11: applyForManager answers 200 only for an actor whose role is agent and
\* whose agentVerificationStatus is verified; an eligible actor with a pending
\* managerApplication is refused as a duplicate; a success sets only
\* managerApplication to pending (role, officeId and agentVerificationStatus
\* keep their values) and every failure leaves the store unchanged.
\* (applyForManager runs for the requests that passed authenticateToken.)
C11_ApplyForManager ==
  [][last'.op = "applyForManager" =>
       LET user == users[last'.actor] IN
         /\ last'.status = 200
              => /\ user.role = "agent"
                 /\ user.agentVerificationStatus = "verified"
                 /\ user.managerApplication # "pending"
                 /\ users' = [users EXCEPT ![last'.actor].managerApplication
                                             = "pending"]
                 /\ agents' = agents /\ offices' = offices
         /\ (/\ authenticateToken(CurDb, last'.actor)
             /\ user.role = "agent"
             /\ user.agentVerificationStatus = "verified"
             /\ user.managerApplication = "pending")
              => /\ last'.status = 400
                 /\ last'.msg = "You already have a pending application"
         /\ last'.status # 200 => StoreUnchanged]_vars

C11_Witness ==
  /\ last.op = "applyForManager" /\ last.status = 400
  /\ last.msg = "You already have a pending application"
  /\ users[last.actor].managerApplication = "pending"
  /\ users[last.actor].role = "agent"

\* C12: in every reachable state an account whose agentVerificationStatus is
\* verified has an agentId that names an Agent Profile with isActive = true.
C12_VerifiedHasActiveProfile ==
  \A u \in DOMAIN users :
    users[u].agentVerificationStatus = "verified"
      => /\ users[u].agentId \in DOMAIN agents
         /\ agents[users[u].agentId].isActive

\* C13: in every reachable state an account's agentId is set if and only if
\* an Agent Profile exists whose userId is that account, and agentId names
\* such a profile.
C13_AgentRefIffProfile ==
  \A u \in DOMAIN users :
    /\ (users[u].agentId # Null) <=> (AgentsOf(CurDb, u) # {})
    /\ users[u].agentId # Null => users[u].agentId \in AgentsOf(CurDb, u)

\* C14: an Agent Profile is created with isActive = false, and isActive turns
\* true only in a verifyAgent(approve) request of an admin; no other request
\* creates or produces an Agent Profile with isActive = true.
C14_ActiveOnlyByVerify ==
  [][\A a \in DOMAIN agents' :
       (/\ agents'[a].isActive
        /\ (a \notin DOMAIN agents \/ ~agents[a].isActive))
       => /\ a \in DOMAIN agents
          /\ last'.op = "verifyAgent" /\ last'.arg = "approve"
          /\ users[last'.actor].role = "admin"]_vars

C17_ManagerAmongAgents ==
  \A o \in DOMAIN offices :
    /\ InSeq(offices[o].manager, offices[o].agents)
    /\ \A i, j \in 1..Len(offices[o].agents) :
         offices[o].agents[i] = offices[o].agents[j] => i = j

\* the first manager is manager again, after a reassignment away and back
C17_Witness ==
  /\ last.op = "updateOffice" /\ last.status = 200
  /\ offices[last.id].manager = offices[last.id].agents[1]
  /\ Len(offices[last.id].agents) = 2

\* C18: no two offices share a franchiseId; a createOffice request whose
\* franchiseId a stored office already uses fails and persists nothing; and
\* createOffice requests that name a fresh franchiseId (with a verified
\* manager and all required fields) leave exactly one office with it.
C18_FranchiseIdUnique ==
  [][last'.op = "createOffice" =>
       /\ \A o1, o2 \in DOMAIN offices' :
            offices'[o1].franchiseId = offices'[o2].franchiseId => o1 = o2
       /\ \A body \in OfficeBodies, fail \in StoreFailures :
            OfficesWithFranchise(CurDb, body.franchiseId) # {}
              => LET out == createOfficeRun(CurDb, last'.actor, body,
                                            CHOOSE u \in FindOne(UsersWithAgent(
                                              CurDb, body.manager)) : TRUE,
                                            fail)
                 IN /\ out.res.status >= 400
                    /\ Db(out.users, out.agents, out.offices) = CurDb
       /\ last'.arg = "valid"
            => Cardinality(DOMAIN offices' \ DOMAIN offices) = 1]_vars

\* C19: once a property's status is off-market, no request changes it to
\* another value.
C19_OffMarketIrreversible ==
  [][\A p \in DOMAIN properties :
       properties[p].status = "off-market"
         => properties'[p].status = "off-market"]_vars

C21_SubmitThenAssign ==
  [][/\ (/\ last'.op = "submitProperty"
         /\ users[last'.actor].role = "seller"
         /\ last'.arg = "valid")
        => /\ last'.status = 201
           /\ \E p \in DOMAIN properties' \ DOMAIN properties :
                /\ properties'[p].status = "pending"
                /\ properties'[p].seller = last'.actor
                /\ properties'[p].listingAgent = NoRef
                /\ properties'[p].listingOffice = Null
     /\ (/\ last'.op = "assignProperty" /\ last'.status = 200
         /\ properties[last'.id].status = "pending")
        => /\ properties'[last'.id].status = "active"
           /\ properties'[last'.id].listingAgent # NoRef
           /\ properties'[last'.id].listingOffice # Null]_vars

\* C22: updateProperty and deleteProperty by a manager on a property whose
\* listingOffice is not the officeId of the manager's account answer 403 and
\* leave the property as it was.
C22_ManagerOtherOffice ==
  [][(/\ last'.op \in {"updateProperty", "deleteProperty"}
      /\ users[last'.actor].role = "manager"
      /\ last'.id \in DOMAIN properties
      /\ properties[last'.id].listingOffice # users[last'.actor].officeId)
     => /\ last'.status = 403
        /\ properties' = properties]_vars

C22_Witness ==
  /\ last.op = "updateProperty" /\ last.status = 403
  /\ users[last.actor].role = "manager"
  /\ users[last.actor].officeId \in DOMAIN offices
  /\ last.id \in DOMAIN properties
  /\ properties[last.id].listingOffice = DanglingOffice

C24_AgentOwnListing ==
  [][(/\ last'.op \in {"updateProperty", "deleteProperty"}
      /\ users[last'.actor].role = "agent"
      /\ last'.id \in DOMAIN properties)
     => (last'.status # 403
           <=> properties[last'.id].listingAgent
                 = AgentRef(users[last'.actor].agentId))]_vars

\* C25: a self-only operation (selectRole, completeOnboarding, changePassword,
\* adding or removing a favorite, adding, updating or deleting a saved search,
\* updatePreferences) requested by an authenticated actor for another
\* account fails with 403 and changes nothing, whatever the actor's role.
SelfOnlyOps ==
  {"selectRole", "completeOnboarding", "changePassword", "addFavoriteProperty",
   "removeFavoriteProperty", "addSavedSearch", "updateSavedSearch",
   "deleteSavedSearch", "updatePreferences"}

C25_SelfOnlyStep ==
  (/\ last'.op \in SelfOnlyOps
   /\ last'.actor # last'.id
   /\ authenticateToken(CurDb, last'.actor))
    => (last'.status = 403 /\ StoreUnchanged /\ properties' = properties)

C25_SelfOnly == [][C25_SelfOnlyStep]_vars

C25_Witness ==
  /\ last.op = "addSavedSearch"
  /\ last.actor \in DOMAIN users /\ users[last.actor].role = "admin"
  /\ last.id \in DOMAIN users /\ last.id # last.actor
  /\ last.arg # Absent
  /\ last.status = 403

\* C26: addRole(role) succeeds and leaves role exactly once in the account's
\* additionalRoles, whether or not it was there before.
C26_AddRoleIdempotent ==
  last.op = "addRole"
    => /\ last.status = 200
       /\ "additionalRoles" \in DOMAIN users[last.actor]
       /\ Cardinality({i \in DOMAIN users[last.actor].additionalRoles :
                         users[last.actor].additionalRoles[i] = last.arg}) = 1

\* C27: no account ever holds more than ten saved searches, and an
\* addSavedSearch for an account that holds ten fails and leaves them as
\* they were.
C27_SavedSearchLimit ==
  /\ \A u \in DOMAIN users : Len(users[u].savedSearches) <= SavedSearchLimit
  /\ (last.op = "addSavedSearch" /\ last.status = 201)
       => Len(users[last.id].savedSearches) <= SavedSearchLimit

\* C28: forgotPassword answers with the same status and message for an email
\* of a stored account and for an email no account has, so the response does
\* not tell the caller which of the two it was.
C28_ForgotPasswordGeneric ==
  /\ \A e1, e2 \in UserIds \cup {UnknownUser}, t \in ResetTokens :
       forgotPasswordRun(CurDb, e1, t).res = forgotPasswordRun(CurDb, e2, t).res
  /\ last.op = "forgotPassword"
       => (last.status = 200 /\ last.msg = GenericReset)

C28_Witness ==
  /\ last.op = "forgotPassword"
  /\ last.id \notin DOMAIN users
  /\ \E u \in DOMAIN users : users[u].passwordResetToken # NoDigest
  /\ last.status = 200

\* C29: a request that changes the store is a registration, a login or a
\* forgotPassword, or it is made by an actor whose account is stored and
\* active when the request arrives.
C29_MutationStep ==
  (~StoreUnchanged \/ properties' # properties)
    => \/ last'.op \in {"register", "login", "forgotPassword"}
       \/ authenticateToken(CurDb, last'.actor)

C29_MutationsAuthenticated == [][C29_MutationStep]_vars

\* C30: a successful completeOnboarding(role) has role buyer or seller, sets
\* onboardingCompleted[role] and leaves the other onboarding flags, the
\* account's role, agentVerificationStatus and agentId as they were; a call
\* with any other role fails and changes nothing, with 400 when the actor is
\* the target account.
C30_CompleteOnboardingStep ==
  last'.op = "completeOnboarding"
    => LET id == last'.id
           role == last'.arg
       IN /\ last'.status = 200
               => /\ role \in {"buyer", "seller"}
                  /\ users'[id].onboardingCompleted[role]
                  /\ \A r \in OnboardingRoles \ {role} :
                       users'[id].onboardingCompleted[r]
                         = users[id].onboardingCompleted[r]
                  /\ users'[id].role = users[id].role
                  /\ users'[id].agentVerificationStatus
                       = users[id].agentVerificationStatus
                  /\ users'[id].agentId = users[id].agentId
                  /\ \A u \in DOMAIN users \ {id} : users'[u] = users[u]
                  /\ agents' = agents /\ offices' = offices
          /\ role \notin {"buyer", "seller"}
               => /\ last'.status # 200
                  /\ StoreUnchanged
                  /\ (authenticateToken(CurDb, last'.actor) /\ last'.actor = id)
                       => last'.status = 400
          /\ (/\ role \in {"buyer", "seller"}
              /\ authenticateToken(CurDb, last'.actor) /\ last'.actor = id)
               => last'.status = 200

C30_CompleteOnboardingFrame == [][C30_CompleteOnboardingStep]_vars

C30_Witness ==
  /\ last.op = "completeOnboarding" /\ last.status = 200
  /\ last.arg = "seller"
  /\ users[last.id].role = "buyer"
  /\ users[last.id].onboardingCompleted.seller
  /\ ~users[last.id].onboardingCompleted.buyer
  /\ ~users[last.id].isProfileComplete

\* C31: selectRole by an authenticated actor succeeds exactly when the actor
\* is the target and the role is buyer, seller or agent; it then sets the
\* account's role, resets agentVerificationStatus to none for agent and
\* creates no Agent Profile. Another actor gets 403, another role 400, and a
\* failed call leaves the store as it was.
C31_SelectRoleStep ==
  (last'.op = "selectRole" /\ authenticateToken(CurDb, last'.actor))
    => LET id == last'.id
           role == last'.arg
           self == last'.actor = id
           allowed == role \in {"buyer", "seller", "agent"}
       IN /\ last'.status = 200 <=> (self /\ allowed)
          /\ last'.status = 200
               => /\ users'[id].role = role
                  /\ users'[id].agentVerificationStatus =
                       IF role = "agent" THEN "none"
                       ELSE users[id].agentVerificationStatus
                  /\ users'[id].agentId = users[id].agentId
                  /\ \A u \in DOMAIN users \ {id} : users'[u] = users[u]
                  /\ agents' = agents /\ offices' = offices
          /\ ~self => last'.status = 403
          /\ (self /\ ~allowed) => last'.status = 400
          /\ last'.status # 200 => StoreUnchanged

C31_SelectRole == [][C31_SelectRoleStep]_vars

C31_Witness ==
  /\ last.op = "selectRole" /\ last.status = 200
  /\ last.arg = "agent"
  /\ users[last.id].role = "agent"
  /\ users[last.id].agentVerificationStatus = "none"
  /\ users[last.id].agentId = Null
  /\ agents = <<>>

\* C32: an account's agentVerificationStatus becomes verified or rejected only
\* from pending, in a verifyAgent request, and becomes pending only from none
\* or rejected, in an apply request.
C32_WorkflowStep ==
  \A u \in DOMAIN users \cap DOMAIN users' :
    LET from == users[u].agentVerificationStatus
        to == users'[u].agentVerificationStatus
    IN from # to
         => /\ to \in {"verified", "rejected"}
                 => (from = "pending" /\ last'.op = "verifyAgent")
            /\ to = "pending"
                 => (from \in {"none", "rejected"} /\ last'.op = "apply")

C32_WorkflowEdges == [][C32_WorkflowStep]_vars

\* C33: when an approve and a reject of the same Agent Profile have both been
\* answered, however their writes interleaved, the profile is active exactly
\* when the owning account's agentVerificationStatus is verified.
C33_ConcurrentVerifyConsistent ==
  \A r1, r2 \in RequestIds :
    (/\ r1 # r2
     /\ reqs[r1].pc = "done" /\ reqs[r2].pc = "done"
     /\ reqs[r1].status = 200 /\ reqs[r2].status = 200
     /\ reqs[r1].agent = reqs[r2].agent
     /\ reqs[r1].action # reqs[r2].action
     /\ \A q \in RequestIds : reqs[q].pc \in {"idle", "done"})
    => LET agent == agents[reqs[r1].agent]
       IN agent.isActive
            <=> users[agent.userId].agentVerificationStatus = "verified"

\* C34: a createOffice, updateOffice or deleteOffice request ends either
\* committed with a success response or with an error response and the store
\* as it was before the request.
C34_OfficeRequestStep ==
  (/\ last'.op \in {"createOffice", "updateOffice", "deleteOffice"}
   /\ authenticateToken(CurDb, last'.actor))
    => \/ last'.status \in {200, 201}
       \/ last'.status >= 400 /\ StoreUnchanged

C35_ManagerScopeStep ==
  (/\ last'.op \in {"updateOffice", "deleteOffice"}
   /\ authenticateToken(CurDb, last'.actor)
   /\ users[last'.actor].role = "manager"
   /\ last'.id \in DOMAIN offices
   /\ offices[last'.id].manager # users[last'.actor].agentId)
    => (last'.status = 403 /\ StoreUnchanged)

C36_InactiveOfficeStep ==
  /\ \A o \in DOMAIN offices' :
       ~offices'[o].isActive
         => /\ offices'[o].deletedAt
            /\ \A a \in DOMAIN agents' :
                 agents'[a].office = o => ~agents'[a].isActive
  /\ \A o \in DOMAIN offices \cap DOMAIN offices' :
       /\ (offices[o].isActive /\ ~offices'[o].isActive)
            => last'.op = "deleteOffice"
       /\ ~offices[o].isActive => ~offices'[o].isActive
  /\ (/\ last'.op = "deleteOffice"
      /\ last'.id \in DOMAIN offices
      /\ ~offices[last'.id].isActive)
       => (last'.status # 200 /\ StoreUnchanged)

C37_UpdateUserStep ==
  last'.op = "updateUser" =>
    /\ (/\ users[last'.actor].role # "admin"
        /\ last'.id = last'.actor)
         => /\ users' = [users EXCEPT ![last'.id].preferences
                                        = users'[last'.id].preferences]
            /\ agents' = agents /\ offices' = offices
    /\ \A u \in DOMAIN users :
         (\/ users'[u].role # users[u].role
          \/ users'[u].isActive # users[u].isActive
          \/ users'[u].agentId # users[u].agentId)
           => users[last'.actor].role = "admin"

C37_UpdateUserFrame == [][C37_UpdateUserStep]_vars

\* a non-admin actor sent role, isActive, agentId and preferences for their
\* own account: the update succeeded and only the preferences changed
C37_Witness ==
  /\ last.op = "updateUser" /\ last.status = 200 /\ last.arg = "admin"
  /\ last.id = last.actor
  /\ users[last.actor].role \in {"buyer", "seller"}
  /\ users[last.actor].isActive
  /\ users[last.actor].agentId = Null
  /\ users[last.actor].preferences = [propertyTypes |-> 1, notifications |-> FALSE]

\* C38: while an account is deactivated, a login for it is refused, a refresh
\* with a token that names it is refused, and a request that authenticates as
\* it (with a token issued at any time) is rejected by authenticateToken, the
\* store staying as it was in each case; the account turns active again only
\* in an updateUser request of an active admin.
C38_DeactivatedStep ==
  \A u \in DOMAIN users :
    ~users[u].isActive =>
      /\ (last'.op = "login" /\ last'.id = u)
           => (last'.status = 403 /\ StoreUnchanged)
      /\ (last'.op = "refreshToken" /\ last'.id = u)
           => (last'.status \in {401, 403} /\ StoreUnchanged)
      /\ last'.actor = u
           => (last'.status \in {401, Unanswered.status} /\ StoreUnchanged)
      /\ (u \in DOMAIN users' /\ users'[u].isActive)
           => /\ last'.op = "updateUser" /\ last'.id = u
              /\ authenticateToken(CurDb, last'.actor)
              /\ users[last'.actor].role = "admin"

C38_DeactivatedLocked == [][C38_DeactivatedStep]_vars

\* an account that had logged in was deactivated and its next login refused
C38_Witness ==
  /\ last.op = "login" /\ last.status = 403
  /\ last.msg = "User account is deactivated"
  /\ ~users[last.id].isActive
  /\ users[last.id].lastLogin # Null
  /\ comparePassword(users[last.id], last.arg)

====
